---- MODULE Spec2Model ----
(***************************************************************************)
(* Model of secret_santa.py: the command line entry point (main), the two  *)
(* modes (dry_run, real_run), the pairing generator (create_pairings) and  *)
(* the mail hand-off (send_email).                                         *)
(*                                                                         *)
(* Strings that the program inspects character by character (the          *)
(* confirmation input, the port input) are sequences of one-character      *)
(* strings.  Names and email addresses are only copied and compared for    *)
(* equality, so they are plain strings.  A console line is a record        *)
(* [kind, who, detail, a, b]: who/detail are the interpolated strings and  *)
(* a/b the interpolated numbers of the printed line; purely decorative     *)
(* separator lines are left out.                                           *)
(***************************************************************************)
EXTENDS Integers, Sequences, FiniteSets

\* Largest number of rows in the input file.
MaxN == 3

\* Largest number of rows in an input file in which two rows share an address.
MaxShared == 2

\* secret_santa.py:49
max_attempts == 1000

\* secret_santa.py:135
DefaultPort == 587

Names == <<"Alice", "Bob", "Carol", "Dave", "Eve", "Frank">>

Emails == <<"a@x", "b@x", "c@x", "d@x", "e@x", "f@x">>

MaxOf(S) == CHOOSE m \in S : \A x \in S : x <= m

\* Email patterns of n rows up to renaming of addresses: row 1 has the first
\* address, every later row has an address already used or the next new one.
\* Every pattern of equal and distinct addresses among n rows occurs once.
EmailPatterns(n) ==
  IF n = 0 THEN { <<>> }
  ELSE { f \in [1..n -> 1..n] :
           /\ f[1] = 1
           /\ \A i \in 2..n : f[i] <= MaxOf({ f[j] : j \in 1..(i-1) }) + 1 }

Distinct(f) == \A i, j \in DOMAIN f : f[i] = f[j] => i = j

RowsOf(f) == [i \in DOMAIN f |-> [name |-> Names[i], email |-> Emails[f[i]]]]

RowLists ==
  UNION { { RowsOf(f) : f \in { g \in EmailPatterns(n) : Distinct(g) \/ n <= MaxShared } } :
            n \in 0..MaxN }

Whitespace == { " ", "\t" }

Digits == <<"0", "1", "2", "3", "4", "5", "6", "7", "8", "9">>

ConfirmInputs ==
  { <<"S","E","N","D">>, <<" ","S","E","N","D","\t">>, <<"s","e","n","d">>,
    <<"S","E","N","D"," ","!">>, <<"y","e","s">>, <<"S"," ","E","N","D">>, <<>> }

PortInputs == { <<>>, <<"5","8","7">>, <<" ","5","8","7">>, <<"a","b","c">> }

\* What one blocking send_email call can do: return, or raise.
Outcomes == { "ok", "SMTPAuthenticationError", "ConnectionRefusedError" }

VARIABLES
  dry_run_flag,   \* args.dry_run
  send_flag,      \* args.send
  csv_exists,     \* the file named on the command line exists
  has_columns,    \* its header has both a name and an email column
  rows,           \* its records
  opened,         \* open(csv_file) has been called
  pc,             \* position of the single thread of control
  participants,   \* dry_run/real_run: participants
  smtp_port,      \* real_run: smtp_port
  givers,         \* create_pairings: givers
  receivers,      \* create_pairings: receivers
  attempts,       \* create_pairings: iterations of the for loop started
  rejected,       \* history: candidates that failed the test on line 53
  result,         \* how create_pairings ended: none, paired, ValueError, RuntimeError
  pairings,       \* dry_run/real_run: pairings
  confirm_input,  \* the line read by input("Type 'SEND' to confirm: ")
  confirm,        \* real_run: confirm
  idx,            \* real_run: position of the for loop over pairings
  success_count,  \* real_run: success_count
  outbox,         \* every send_email call made so far, with its outcome
  console         \* everything printed so far

vars == << dry_run_flag, send_flag, csv_exists, has_columns, rows, opened, pc,
           participants, smtp_port, givers, receivers, attempts, rejected,
           result, pairings, confirm_input, confirm, idx, success_count,
           outbox, console >>

inputs == << dry_run_flag, send_flag, csv_exists, has_columns, rows >>

Line(kind, who, detail, a, b) ==
  [kind |-> kind, who |-> who, detail |-> detail, a |-> a, b |-> b]

----------------------------------------------------------------------------
\* str.strip(): drop leading and trailing whitespace.

RECURSIVE LStrip(_)
LStrip(s) ==
  IF s = <<>> THEN <<>>
  ELSE IF Head(s) \in Whitespace THEN LStrip(Tail(s)) ELSE s

RECURSIVE RStrip(_)
RStrip(s) ==
  IF s = <<>> THEN <<>>
  ELSE IF s[Len(s)] \in Whitespace THEN RStrip(SubSeq(s, 1, Len(s) - 1)) ELSE s

Strip(s) == RStrip(LStrip(s))

DigitValue(c) == (CHOOSE k \in 1..10 : Digits[k] = c) - 1

IsDigit(c) == \E k \in 1..10 : Digits[k] = c

\* int(s) raises ValueError unless s is a decimal literal.
IntParses(s) == s /= <<>> /\ \A i \in 1..Len(s) : IsDigit(s[i])

RECURSIVE IntOf(_)
IntOf(s) ==
  IF s = <<>> THEN 0 ELSE 10 * IntOf(SubSeq(s, 1, Len(s) - 1)) + DigitValue(s[Len(s)])

\* smtp_port = int(smtp_port_input) if smtp_port_input else 587
PortOf(s) == IF s = <<>> THEN DefaultPort ELSE IntOf(s)

PortRaises(s) == s /= <<>> /\ ~IntParses(s)

----------------------------------------------------------------------------
\* load_participants: a row is kept when the header has both columns.
load_participants(hdr, rs) == IF hdr THEN rs ELSE <<>>

UsageError_both_only(d, s) == d /\ s

UsageError(d, s) == (d /\ s) \/ (~d /\ ~s)

TooFew_off_by_one(ps) == Len(ps) < 1

TooFew(ps) == Len(ps) < 2

MoreAttempts_inclusive(a) == a <= max_attempts

MoreAttempts(a) == a < max_attempts

\* The rearrangements of n positions, tabulated once for the sizes that occur.
PermTable ==
  [n \in 0..(MaxN + 1) |->
     { f \in [1..n -> 1..n] : \A i, j \in 1..n : f[i] = f[j] => i = j }]

Perms(n) == PermTable[n]

ShuffleOutcomes_copy(s) == { s }

ShuffleOutcomes_with_replacement(s) ==
  { [i \in 1..Len(s) |-> s[f[i]]] : f \in [1..Len(s) -> 1..Len(s)] }

\* random.shuffle(receivers): the list is rearranged in place into any order.
ShuffleOutcomes(s) == { [i \in 1..Len(s) |-> s[f[i]]] : f \in Perms(Len(s)) }

\* all(givers[i]['email'] != receivers[i]['email'] for i in range(len(givers)))
NoCollision(g, r) == \A i \in 1..Len(g) : g[i].email /= r[i].email

Zip_swapped(g, r) == [i \in 1..Len(g) |-> [giver |-> r[i], receiver |-> g[i]]]

\* list(zip(givers, receivers))
Zip(g, r) == [i \in 1..Len(g) |-> [giver |-> g[i], receiver |-> r[i]]]

\* send_email: the message handed to the transport.
Message(giver, receiver) ==
  [to |-> giver.email, greeting |-> giver.name, assigned |-> receiver.name]

SEND == <<"S","E","N","D">>

Confirmed_nonempty(c) == c /= <<>>

\* if confirm != 'SEND': ... return
Confirmed(c) == c = SEND

DeliveryLine_receiver(giver, receiver, out) ==
  IF out = "ok" THEN Line("sent", receiver.name, "", 0, 0)
  ELSE Line("failed", receiver.name, out, 0, 0)

\* The line printed after one send_email call (lines 157 and 160).
DeliveryLine(giver, receiver, out) ==
  IF out = "ok" THEN Line("sent", giver.name, "", 0, 0)
  ELSE Line("failed", giver.name, out, 0, 0)

NextCount_always(c, out) == c + 1

NextCount(c, out) == IF out = "ok" THEN c + 1 ELSE c

NextIdx_break(i, out, n) == IF out = "ok" THEN i + 1 ELSE n + 1

\* The for loop over pairings goes on to the next pairing on both branches.
NextIdx(i, out, n) == i + 1

----------------------------------------------------------------------------
Say(ls) == console \o ls

ErrorLine(msg) == Line("error", "", msg, 0, 0)

Init ==
  /\ dry_run_flag \in BOOLEAN
  /\ send_flag \in BOOLEAN
  /\ csv_exists \in BOOLEAN
  /\ has_columns \in BOOLEAN
  /\ rows \in RowLists
  /\ opened = FALSE
  /\ pc = "main"
  /\ participants = <<>>
  /\ smtp_port = 0
  /\ givers = <<>>
  /\ receivers = <<>>
  /\ attempts = 0
  /\ rejected = 0
  /\ result = "none"
  /\ pairings = <<>>
  /\ confirm_input = <<>>
  /\ confirm = <<>>
  /\ idx = 0
  /\ success_count = 0
  /\ outbox = <<>>
  /\ console = <<>>

\* main, lines 176-191: reject a bad flag combination, else pick the mode.
ParseArgs ==
  /\ pc = "main"
  /\ IF UsageError(dry_run_flag, send_flag)
       THEN /\ console' = Say(<< Line("usage", "",
                                      IF dry_run_flag THEN "both" ELSE "neither", 0, 0) >>)
            /\ pc' = "usage"
       ELSE /\ console' = console
            /\ pc' = IF dry_run_flag THEN "dry_run" ELSE "real_run"
  /\ UNCHANGED << inputs, opened, participants, smtp_port, givers, receivers,
                  attempts, rejected, result, pairings, confirm_input, confirm,
                  idx, success_count, outbox >>

\* dry_run, lines 92-102, with main's handler on lines 192-193.
LoadDry ==
  /\ pc = "dry_run"
  /\ opened' = TRUE
  /\ IF ~csv_exists
       THEN /\ console' = Say(<< Line("banner", "", "dry", 0, 0),
                                 Line("not_found", "", "", 0, 0) >>)
            /\ participants' = participants
            /\ pc' = "aborted"
       ELSE LET ps == load_participants(has_columns, rows) IN
            /\ participants' = ps
            /\ console' = Say(<< Line("banner", "", "dry", 0, 0),
                                 Line("loaded", "", "", Len(ps), 0) >>
                              \o [i \in 1..Len(ps) |->
                                    Line("participant", ps[i].name, ps[i].email, 0, 0)]
                              \o << Line("pairings_header", "", "", 0, 0) >>)
            /\ pc' = "create_pairings"
  /\ UNCHANGED << inputs, smtp_port, givers, receivers, attempts, rejected,
                  result, pairings, confirm_input, confirm, idx, success_count,
                  outbox >>

\* real_run, lines 113-117, with main's handler on lines 192-193.
LoadReal ==
  /\ pc = "real_run"
  /\ opened' = TRUE
  /\ IF ~csv_exists
       THEN /\ console' = Say(<< Line("banner", "", "real", 0, 0),
                                 Line("not_found", "", "", 0, 0) >>)
            /\ participants' = participants
            /\ pc' = "aborted"
       ELSE LET ps == load_participants(has_columns, rows) IN
            /\ participants' = ps
            /\ console' = Say(<< Line("banner", "", "real", 0, 0),
                                 Line("loaded", "", "", Len(ps), 0) >>)
            /\ pc' = "configure"
  /\ UNCHANGED << inputs, smtp_port, givers, receivers, attempts, rejected,
                  result, pairings, confirm_input, confirm, idx, success_count,
                  outbox >>

ConfigPrompts ==
  << Line("prompt", "", "sender email", 0, 0),
     Line("prompt", "", "sender password", 0, 0),
     Line("smtp_hints", "", "", 0, 0),
     Line("prompt", "", "smtp server", 0, 0),
     Line("prompt", "", "smtp port", 0, 0) >>

\* real_run, lines 119-138, with main's handler on lines 194-195.  The sender
\* address, password and server are opaque strings handed on to the transport.
Configure ==
  /\ pc = "configure"
  /\ \E port_input \in PortInputs :
       LET p == Strip(port_input) IN
       IF PortRaises(p)
         THEN /\ console' = Say(ConfigPrompts \o << ErrorLine("invalid literal for int()") >>)
              /\ smtp_port' = smtp_port
              /\ pc' = "aborted"
         ELSE /\ console' = Say(ConfigPrompts \o << Line("creating", "", "", 0, 0) >>)
              /\ smtp_port' = PortOf(p)
              /\ pc' = "create_pairings"
  /\ UNCHANGED << inputs, opened, participants, givers, receivers, attempts,
                  rejected, result, pairings, confirm_input, confirm, idx,
                  success_count, outbox >>

\* create_pairings, lines 42-49, with main's handler on lines 194-195.
Enter ==
  /\ pc = "create_pairings"
  /\ IF TooFew(participants)
       THEN /\ result' = "ValueError"
            /\ console' = Say(<< ErrorLine("Need at least 2 participants for Secret Santa") >>)
            /\ pc' = "aborted"
            /\ UNCHANGED << givers, receivers >>
       ELSE /\ givers' = participants
            /\ receivers' = participants
            /\ pc' = "shuffle"
            /\ UNCHANGED << result, console >>
  /\ UNCHANGED << inputs, opened, participants, smtp_port, attempts, rejected,
                  pairings, confirm_input, confirm, idx, success_count, outbox >>

\* create_pairings, lines 50-53: one iteration of the for loop, up to the test.
Attempt ==
  /\ pc = "shuffle"
  /\ MoreAttempts(attempts)
  /\ attempts' = attempts + 1
  /\ \E r \in ShuffleOutcomes(receivers) :
       /\ receivers' = r
       /\ IF NoCollision(givers, r)
            THEN /\ pc' = "return"
                 /\ rejected' = rejected
            ELSE /\ pc' = pc
                 /\ rejected' = rejected + 1
  /\ UNCHANGED << inputs, opened, participants, smtp_port, givers, result,
                  pairings, confirm_input, confirm, idx, success_count, outbox,
                  console >>

\* create_pairings, line 54, and the caller's assignment on line 104 or 139:
\* the value is built, the frame and its locals are gone, the caller goes on.
Return ==
  /\ pc = "return"
  /\ pairings' = Zip(givers, receivers)
  /\ result' = "paired"
  /\ givers' = <<>>
  /\ receivers' = <<>>
  /\ attempts' = 0
  /\ rejected' = 0
  /\ pc' = IF dry_run_flag THEN "show" ELSE "confirm"
  /\ UNCHANGED << inputs, opened, participants, smtp_port, confirm_input,
                  confirm, idx, success_count, outbox, console >>

\* create_pairings, line 56, with main's handler on lines 194-195.  The run
\* ends here; the locals keep the values they had when the exception left.
Exhaust ==
  /\ pc = "shuffle"
  /\ ~MoreAttempts(attempts)
  /\ result' = "RuntimeError"
  /\ console' = Say(<< ErrorLine("Could not create valid pairings. This is very unlikely!") >>)
  /\ pc' = "aborted"
  /\ UNCHANGED << inputs, opened, participants, smtp_port, givers, receivers,
                  attempts, rejected, pairings, confirm_input, confirm, idx,
                  success_count, outbox >>

\* dry_run, lines 105-108.
Show ==
  /\ pc = "show"
  /\ console' = Say([i \in 1..Len(pairings) |->
                       Line("pairing", pairings[i].giver.name,
                            pairings[i].receiver.name, 0, 0)]
                    \o << Line("dry_complete", "", "", 0, 0) >>)
  /\ pc' = "done"
  /\ UNCHANGED << inputs, opened, participants, smtp_port, givers, receivers,
                  attempts, rejected, result, pairings, confirm_input, confirm,
                  idx, success_count, outbox >>

\* real_run, lines 142-151.
Confirm ==
  /\ pc = "confirm"
  /\ \E typed \in ConfirmInputs :
       /\ confirm_input' = typed
       /\ confirm' = Strip(typed)
       /\ IF Confirmed(Strip(typed))
            THEN /\ console' = Say(<< Line("ready", "", "", Len(pairings), 0),
                                      Line("prompt", "", "confirm", 0, 0),
                                      Line("sending", "", "", 0, 0) >>)
                 /\ idx' = 1
                 /\ pc' = "send"
            ELSE /\ console' = Say(<< Line("ready", "", "", Len(pairings), 0),
                                      Line("prompt", "", "confirm", 0, 0),
                                      Line("cancelled", "", "", 0, 0) >>)
                 /\ idx' = idx
                 /\ pc' = "done"
  /\ success_count' = 0
  /\ UNCHANGED << inputs, opened, participants, smtp_port, givers, receivers,
                  attempts, rejected, result, pairings, outbox >>

\* real_run, lines 153-160: one iteration of the for loop over pairings.
SendOne ==
  /\ pc = "send"
  /\ idx <= Len(pairings)
  /\ \E out \in Outcomes :
       LET giver == pairings[idx].giver
           receiver == pairings[idx].receiver IN
       /\ outbox' = Append(outbox, [msg |-> Message(giver, receiver),
                                    port |-> smtp_port, outcome |-> out])
       /\ console' = Say(<< DeliveryLine(giver, receiver, out) >>)
       /\ success_count' = NextCount(success_count, out)
       /\ idx' = NextIdx(idx, out, Len(pairings))
  /\ UNCHANGED << inputs, opened, pc, participants, smtp_port, givers,
                  receivers, attempts, rejected, result, pairings,
                  confirm_input, confirm >>

\* real_run, lines 162-163.
Summary ==
  /\ pc = "send"
  /\ idx > Len(pairings)
  /\ console' = Say(<< Line("summary", "", "", success_count, Len(pairings)),
                       Line("distributed", "", "", 0, 0) >>)
  /\ pc' = "done"
  /\ UNCHANGED << inputs, opened, participants, smtp_port, givers, receivers,
                  attempts, rejected, result, pairings, confirm_input, confirm,
                  idx, success_count, outbox >>

Next ==
  \/ ParseArgs
  \/ LoadDry
  \/ LoadReal
  \/ Configure
  \/ Enter
  \/ Attempt
  \/ Return
  \/ Exhaust
  \/ Show
  \/ Confirm
  \/ SendOne
  \/ Summary

Spec == Init /\ [][Next]_vars

----------------------------------------------------------------------------
N == Len(participants)

DistinctEmails(ps) ==
  \A i, j \in 1..Len(ps) : ps[i].email = ps[j].email => i = j

Notify == send_flag /\ ~dry_run_flag

\* s is 'SEND' between a run of leading and a run of trailing whitespace.
TrimsToSEND(s) ==
  \E i, j \in 0..Len(s) :
    /\ i + 4 + j = Len(s)
    /\ \A k \in 1..i : s[k] \in { " ", "\t" }
    /\ \A k \in (i + 5)..Len(s) : s[k] \in { " ", "\t" }
    /\ SubSeq(s, i + 1, i + 4) = <<"S","E","N","D">>

Delivered == Cardinality({ i \in 1..Len(outbox) : outbox[i].outcome = "ok" })

\* C1: when create_pairings returns for n >= 2 participants with pairwise
\* distinct emails, there are n pairings, the givers are the participants in
\* input order, every participant is receiver exactly once, and no pairing
\* has the same email on both sides.
C1_Derangement ==
  (result = "paired" /\ N >= 2 /\ DistinctEmails(participants)) =>
    /\ Len(pairings) = N
    /\ \A i \in 1..N : pairings[i].giver = participants[i]
    /\ \A p \in 1..N :
         Cardinality({ i \in 1..N : pairings[i].receiver = participants[p] }) = 1
    /\ \A i \in 1..N : pairings[i].giver.email /= pairings[i].receiver.email

C1_Witness ==
  /\ result = "paired"
  /\ N = 3
  /\ DistinctEmails(participants)
  /\ pairings[1].receiver = participants[3]

\* C2: with 0 or 1 loaded participants no shuffle is attempted, no pairing
\* is produced, create_pairings can only end in the validation error, the run
\* ends aborted with an error line as its last output, and nothing is sent.
C2_TooFewAborts ==
  (opened /\ csv_exists /\ pc \notin { "dry_run", "real_run" } /\ N < 2) =>
    /\ attempts = 0
    /\ pairings = <<>>
    /\ outbox = <<>>
    /\ result \in { "none", "ValueError" }
    /\ pc \in { "configure", "create_pairings", "aborted" }
    /\ pc = "aborted" =>
         /\ console[Len(console)].kind = "error"
         /\ result = "ValueError" =>
              console[Len(console)].detail = "Need at least 2 participants for Secret Santa"

C2_Witness ==
  /\ N = 1
  /\ Notify
  /\ result = "ValueError"
  /\ pc = "aborted"

\* C3 as stated: with two participants of distinct emails create_pairings
\* never ends in the exhaustion error and returns the swap.
C3_AlwaysSucceeds ==
  (N = 2 /\ DistinctEmails(participants)) =>
    /\ result /= "RuntimeError"
    /\ result = "paired" =>
         /\ pairings[1].receiver = participants[2]
         /\ pairings[2].receiver = participants[1]

\* C3, amended: with two participants of distinct emails every rejected
\* candidate is the input order and the accepted candidate is the swap;
\* whenever create_pairings returns it returns the swap, and it ends in the
\* exhaustion error only after 1000 shuffles that all left the input order.
C3_SwapOrIdentity ==
  (N = 2 /\ DistinctEmails(participants)) =>
    /\ pc = "shuffle" => receivers = participants
    /\ pc = "return" => receivers = << participants[2], participants[1] >>
    /\ result = "paired" =>
         pairings = << [giver |-> participants[1], receiver |-> participants[2]],
                       [giver |-> participants[2], receiver |-> participants[1]] >>
    /\ result = "RuntimeError" =>
         /\ attempts = 1000
         /\ rejected = 1000
         /\ receivers = participants

C3_Witness ==
  /\ N = 2
  /\ DistinctEmails(participants)
  /\ result = "paired"
  /\ pc = "done"

\* C4: a send_email call has been made only if the run is in --send mode,
\* create_pairings returned a pairing set, and the confirmation input is
\* 'SEND' up to surrounding whitespace; otherwise nothing has been sent.
C4_SendGate ==
  outbox /= <<>> =>
    /\ send_flag
    /\ ~dry_run_flag
    /\ result = "paired"
    /\ TrimsToSEND(confirm_input)

C4_Witness ==
  /\ outbox /= <<>>
  /\ confirm_input = <<" ","S","E","N","D","\t">>

\* C5: in a confirmed notify run the running success count is the number of
\* send_email calls that returned, and the summary line reports that number
\* and the number of pairings.
C5_Count ==
  (Notify /\ pc \in { "send", "done" } /\ confirm = <<"S","E","N","D">>) =>
    /\ success_count = Delivered
    /\ pc = "done" =>
         /\ Len(outbox) = Len(pairings)
         /\ Len(pairings) = N
         /\ \E j \in 1..Len(console) :
              /\ console[j].kind = "summary"
              /\ console[j].a = Delivered
              /\ console[j].b = N
         /\ Cardinality({ j \in 1..Len(console) : console[j].kind = "summary" }) = 1

C5_Witness ==
  /\ Notify
  /\ pc = "done"
  /\ N = 3
  /\ Len(outbox) = 3
  /\ outbox[1].outcome = "ok"
  /\ outbox[2].outcome /= "ok"
  /\ outbox[3].outcome = "ok"
  /\ \E j \in 1..Len(console) :
       console[j].kind = "summary" /\ console[j].a = 2 /\ console[j].b = 3

AttemptsInOrder ==
  /\ Len(outbox) <= Len(pairings)
  /\ pc = "send" => Len(outbox) = idx - 1
  /\ pc = "done" => Len(outbox) = Len(pairings)
  /\ \A i \in 1..Len(outbox) :
       /\ outbox[i].msg.to = participants[i].email
       /\ outbox[i].msg.greeting = participants[i].name
       /\ outbox[i].msg.assigned = pairings[i].receiver.name

OneAttemptAtATime ==
  outbox' /= outbox =>
    /\ Len(outbox') = Len(outbox) + 1
    /\ SubSeq(outbox', 1, Len(outbox)) = outbox

\* A step taken while sending either attempts the pairing at idx and moves to
\* the next one, or, all pairings attempted, prints the summary and ends.
SendStep ==
  pc = "send" =>
    \/ /\ pc' = "send"
       /\ idx <= Len(pairings)
       /\ idx' = idx + 1
       /\ Len(outbox') = idx
    \/ /\ pc' = "done"
       /\ idx = Len(pairings) + 1
       /\ outbox' = outbox

\* C6: in a confirmed notify run the i-th send_email call is for the i-th
\* participant as giver, whatever the earlier outcomes were; calls are added
\* one at a time and never repeated.  While sending, a step is always possible
\* and each step attempts the next pairing or, after the last one, prints the
\* summary: the number of pairings left strictly decreases, so the summary is
\* reached after exactly one attempt per pairing.
C6_EachOnceInOrder ==
  /\ []((Notify /\ pc \in { "send", "done" } /\ confirm = <<"S","E","N","D">>)
          => (AttemptsInOrder /\ (pc = "send" => ENABLED (SendOne \/ Summary))))
  /\ [][OneAttemptAtATime /\ SendStep]_vars

C6_Witness ==
  /\ pc = "done"
  /\ Len(outbox) = 3
  /\ outbox[1].outcome /= "ok"
  /\ outbox[2].outcome /= "ok"
  /\ outbox[3].outcome = "ok"

PublicLoad ==
  << [kind |-> "banner", who |-> "", detail |-> "real", a |-> 0, b |-> 0],
     [kind |-> "loaded", who |-> "", detail |-> "", a |-> N, b |-> 0] >>

PublicPrompts ==
  << [kind |-> "prompt", who |-> "", detail |-> "sender email", a |-> 0, b |-> 0],
     [kind |-> "prompt", who |-> "", detail |-> "sender password", a |-> 0, b |-> 0],
     [kind |-> "smtp_hints", who |-> "", detail |-> "", a |-> 0, b |-> 0],
     [kind |-> "prompt", who |-> "", detail |-> "smtp server", a |-> 0, b |-> 0],
     [kind |-> "prompt", who |-> "", detail |-> "smtp port", a |-> 0, b |-> 0] >>

PublicWord(kind) == << [kind |-> kind, who |-> "", detail |-> "", a |-> 0, b |-> 0] >>

PublicError(msg) == << [kind |-> "error", who |-> "", detail |-> msg, a |-> 0, b |-> 0] >>

PublicReady ==
  << [kind |-> "ready", who |-> "", detail |-> "", a |-> N, b |-> 0],
     [kind |-> "prompt", who |-> "", detail |-> "confirm", a |-> 0, b |-> 0] >>

\* One line per delivery outcome, naming the giver (the i-th participant).
PublicDeliveries ==
  [i \in 1..Len(outbox) |->
     IF outbox[i].outcome = "ok"
       THEN [kind |-> "sent", who |-> participants[i].name, detail |-> "",
             a |-> 0, b |-> 0]
       ELSE [kind |-> "failed", who |-> participants[i].name,
             detail |-> outbox[i].outcome, a |-> 0, b |-> 0]]

PublicSummary ==
  << [kind |-> "summary", who |-> "", detail |-> "", a |-> Delivered, b |-> N],
     [kind |-> "distributed", who |-> "", detail |-> "", a |-> 0, b |-> 0] >>

\* The console of a notify run as a function of the participant list, the
\* position reached, how pairing generation ended, the confirmation input and
\* the delivery outcomes: no receiver and no pairing occurs in it.
PublicConsole ==
  CASE pc \in { "main", "real_run" } -> <<>>
    [] pc = "configure" -> PublicLoad
    [] pc \in { "create_pairings", "shuffle", "return", "confirm" } ->
         PublicLoad \o PublicPrompts \o PublicWord("creating")
    [] pc = "send" ->
         PublicLoad \o PublicPrompts \o PublicWord("creating") \o PublicReady
           \o PublicWord("sending") \o PublicDeliveries
    [] pc = "done" ->
         PublicLoad \o PublicPrompts \o PublicWord("creating") \o PublicReady
           \o (IF TrimsToSEND(confirm_input)
                 THEN PublicWord("sending") \o PublicDeliveries \o PublicSummary
                 ELSE PublicWord("cancelled"))
    [] pc = "aborted" ->
         IF ~csv_exists
           THEN << [kind |-> "banner", who |-> "", detail |-> "real", a |-> 0, b |-> 0] >>
                  \o PublicWord("not_found")
         ELSE IF result = "ValueError"
           THEN PublicLoad \o PublicPrompts \o PublicWord("creating")
                  \o PublicError("Need at least 2 participants for Secret Santa")
         ELSE IF result = "RuntimeError"
           THEN PublicLoad \o PublicPrompts \o PublicWord("creating")
                  \o PublicError("Could not create valid pairings. This is very unlikely!")
         ELSE PublicLoad \o PublicPrompts \o PublicError("invalid literal for int()")

\* C7: in notify mode the console is determined by the participant list, the
\* confirmation input and the per-giver delivery outcomes alone, so two runs
\* that differ only in the derangement print the same; the receiver of the
\* i-th pairing occurs only in the i-th message, addressed to its giver.
C7_ReceiverPrivate ==
  Notify =>
    /\ console = PublicConsole
    /\ \A i \in 1..Len(outbox) :
         outbox[i].msg = [to |-> pairings[i].giver.email,
                          greeting |-> pairings[i].giver.name,
                          assigned |-> pairings[i].receiver.name]

C7_Witness ==
  /\ Notify
  /\ pc = "done"
  /\ N = 3
  /\ Len(outbox) = 3
  /\ pairings[1].receiver = participants[3]
  /\ outbox[1].outcome = "ok"
  /\ outbox[2].outcome /= "ok"

\* C8: with neither or both mode flags the run reports the usage error and
\* does nothing else: the file is not opened, nothing is loaded or paired,
\* no prompt is printed and nothing is sent.
C8_UsageNoWork ==
  (dry_run_flag = send_flag) =>
    /\ pc \in { "main", "usage" }
    /\ ~opened
    /\ participants = <<>>
    /\ attempts = 0
    /\ result = "none"
    /\ pairings = <<>>
    /\ outbox = <<>>
    /\ \A j \in 1..Len(console) : console[j].kind = "usage"
    /\ pc = "usage" => Len(console) = 1

C8_Witness ==
  /\ ~dry_run_flag
  /\ ~send_flag
  /\ pc = "usage"

AttemptBound ==
  /\ attempts <= 1000
  /\ pc = "shuffle" => rejected = attempts
  /\ pc = "return" =>
       /\ attempts >= 1
       /\ rejected = attempts - 1
       /\ \A i \in 1..Len(givers) : givers[i].email /= receivers[i].email
  /\ result = "RuntimeError" => (attempts = 1000 /\ rejected = 1000)
  /\ (rejected = 1000 /\ pc /= "shuffle") => result = "RuntimeError"

\* C9: create_pairings makes at most 1000 shuffle attempts; it returns at the
\* first candidate without a positional email collision, every candidate
\* before it having collided; it ends in the exhaustion error exactly when
\* all 1000 candidates collided; and inside it a step is always possible, so
\* it ends after at most 1000 iterations.
C9_BoundedRetry ==
  /\ AttemptBound
  /\ pc \in { "shuffle", "return" } => ENABLED (Attempt \/ Return \/ Exhaust)

C9_Witness ==
  /\ pc = "return"
  /\ attempts = 1000
  /\ N = 3

Accepted == pc \in { "shuffle", "return" } \/ result \in { "paired", "RuntimeError" }

\* C10 as stated: every list of two or more participants that create_pairings
\* accepts has an arrangement that passes the collision test.
C10_AlwaysFeasible ==
  (Accepted /\ N >= 2) =>
    \E r \in ShuffleOutcomes(participants) : NoCollision(participants, r)

\* C10, amended: every list that create_pairings accepts has two or more
\* participants, and if their emails are pairwise distinct some arrangement
\* the shuffle can produce passes the collision test.
C10_FeasibleWhenDistinct ==
  Accepted =>
    /\ N >= 2
    /\ DistinctEmails(participants) =>
         \E r \in ShuffleOutcomes(participants) : NoCollision(participants, r)

C10_Witness ==
  /\ result = "RuntimeError"
  /\ N = 3
  /\ DistinctEmails(participants)

====
